---- MODULE Spec2Model ----
(***************************************************************************)
(* Cura360 data-access layer: window.CURA360.patients / wounds /          *)
(* treatments (src/js/patients.js, src/js/wounds.js, src/js/treatments.js) *)
(*                                                                         *)
(* Every store method is an async function with one suspension point: the  *)
(* part before `await` builds the payload or query and hands the request   *)
(* to the Supabase client, the part after it maps {data, error} to the     *)
(* return value and the toast.  Each part is one action.  The backend      *)
(* (tables, foreign keys, query evaluation), the session accessor and the  *)
(* clocks are the environment of these functions.                          *)
(***************************************************************************)
EXTENDS Integers, Sequences, FiniteSets, TLC

\* ---------------------------------------------------------------- bounds
MaxCalls == 2       \* invocations made in one run
MaxInFlight == 2    \* invocations suspended at their await at one time
MaxClock == 1       \* largest reading of a browser clock

\* ------------------------------------------------------------- JS values
Undefined == "undefined"
Null == "null"
NaN == "NaN"
Falsy == {Undefined, Null, ""}

\* x || d
OrElse(x, d) == IF x \in Falsy THEN d ELSE x

JsNull == [t |-> "null"]
JsObject(r) == [t |-> "object", v |-> r]
JsArray(s) == [t |-> "array", v |-> s]

Digits == <<"0", "1", "2", "3", "4", "5", "6", "7", "8", "9">>
DigitChars == {Digits[i] : i \in 1..10}
DigitValue(ch) == (CHOOSE i \in 1..10 : Digits[i] = ch) - 1
WhiteSpace == {" "}

\* ToString of a non-negative integer (Number#toString, radix 10)
RECURSIVE NumberToString(_)
NumberToString(n) ==
    IF n < 10 THEN <<Digits[n + 1]>>
    ELSE NumberToString(n \div 10) \o <<Digits[(n % 10) + 1]>>

\* ToString of the argument parseInt receives: a number or a string of characters
JsToString(x) == IF x.t = "number" THEN NumberToString(x.v) ELSE x.v

RECURSIVE SkipWhiteSpace(_)
SkipWhiteSpace(s) ==
    IF s # <<>> /\ Head(s) \in WhiteSpace THEN SkipWhiteSpace(Tail(s)) ELSE s

\* the longest prefix of decimal digits
RECURSIVE DigitPrefix(_)
DigitPrefix(s) ==
    IF s # <<>> /\ Head(s) \in DigitChars
    THEN <<Head(s)>> \o DigitPrefix(Tail(s))
    ELSE <<>>

RECURSIVE DecimalValue(_)
DecimalValue(ds) ==
    IF ds = <<>> THEN 0
    ELSE 10 * DecimalValue(SubSeq(ds, 1, Len(ds) - 1)) + DigitValue(ds[Len(ds)])

\* parseInt(x, 10): leading white space skipped, an optional sign, then the
\* longest run of digits; NaN when there is none.
ParseInt10(x) ==
    LET s == SkipWhiteSpace(JsToString(x))
        neg == s # <<>> /\ Head(s) = "-"
        body == IF s # <<>> /\ Head(s) \in {"-", "+"} THEN Tail(s) ELSE s
        ds == DigitPrefix(body)
    IN  IF ds = <<>> THEN NaN
        ELSE IF neg THEN 0 - DecimalValue(ds) ELSE DecimalValue(ds)

\* new Date(t).toISOString(): a fixed-width, zero-padded rendering of the instant
\* (the model's instants are 0..99, rendered on two digits)
ToISOString(t) == <<Digits[((t \div 10) % 10) + 1], Digits[(t % 10) + 1]>>

\* the backend's reading of a timestamp literal
ParseTimestamp(s) == DecimalValue(s)

\* ------------------------------------------------------------ input sets
Clients == {"c1", "c2"}
\* the professional who signs in on each browser
UserOf == [c1 |-> "u1", c2 |-> "u2"]
\* the ids callers pass; whether a row has that id depends on the tables
Ids == {1, 2, 3}

PatientInputs ==
    { [name |-> "Ana", age |-> [t |-> "string", v |-> <<" ", "0", "7", "y">>],
       diagnosis |-> "ulcera", comorbidities |-> Undefined],
      [name |-> "Luis", age |-> [t |-> "number", v |-> 42],
       diagnosis |-> "", comorbidities |-> "diabetes"] }

WoundInputs ==
    { [type |-> "pressure ulcer", location |-> "heel", dimensions |-> "2x3cm",
       status |-> Undefined],
      [type |-> Undefined, location |-> "", dimensions |-> Undefined,
       status |-> "healed"] }

TreatmentInputs ==
    { [technique |-> "debridement", supplies |-> Undefined, notes |-> Undefined],
      [technique |-> "", supplies |-> "gauze", notes |-> "ok"] }

\* ------------------------------------------------------------------ state
VARIABLES
    db,        \* the backend's tables: per table the rows in insertion order
    session,   \* per browser: what window.CURA360.auth.getCurrentUser() returns
    clock,     \* per browser: the last reading of its clock (new Date())
    calls,     \* per slot: the invocation suspended at its await, or idle
    net,       \* per slot: the request on its way, or the {data, error} answer
    ret,       \* what the step just taken handed back to its caller, if it returned
    ncalls,    \* invocations made so far
    created,   \* history: per table, the rows successful create calls returned
    before     \* history: <<a, b>> when treatment a was stored before b's create was called

vars == <<db, session, clock, calls, net, ret, ncalls, created, before>>

Tables == {"patients", "wounds", "treatments"}
Slots == 1..MaxInFlight

NoError == "none"
NoMsg == [kind |-> "none"]
Idle == [op |-> "idle"]
NoRet == [op |-> "none"]
Response(data, error) == [kind |-> "response", data |-> data, error |-> error]

User(u) == [t |-> "object", id |-> u]

\* showToast(message, type)
Toast(message, type) == [message |-> message, type |-> type]

\* what an invocation leaves behind: console.error lines, toasts, and its completion
Outcome(log, toasts, value) ==
    [log |-> log, toasts |-> toasts, value |-> value, threw |-> FALSE]

\* ------------------------------------------------------------ patients.js
\* Fault variant: `user?.id` with the early return dropped
PatientsCreateRequestUnchecked(user, data) ==
    [kind |-> "insert", table |-> "patients", single |-> TRUE,
     payload |-> [name |-> data.name,
                  age |-> ParseInt10(data.age),
                  diagnosis |-> OrElse(data.diagnosis, ""),
                  comorbidities |-> OrElse(data.comorbidities, ""),
                  professional_id |-> IF user.t = "null" THEN Undefined ELSE user.id]]

\* Number(x) || 0: the whole string must be a decimal numeral
NumberOrZero(x) ==
    LET s == SkipWhiteSpace(JsToString(x))
    IN  IF s # <<>> /\ DigitPrefix(s) = s THEN DecimalValue(s) ELSE 0

\* Fault variant: `age: Number(data.age) || 0`
PatientsCreateRequestNumber(user, data) ==
    IF user.t = "null" THEN NoMsg
    ELSE [kind |-> "insert", table |-> "patients", single |-> TRUE,
          payload |-> [name |-> data.name,
                       age |-> NumberOrZero(data.age),
                       diagnosis |-> OrElse(data.diagnosis, ""),
                       comorbidities |-> OrElse(data.comorbidities, ""),
                       professional_id |-> user.id]]

\* create, up to the await: the request it sends, or none when it returns early
PatientsCreateRequest(user, data) ==
    IF user.t = "null" THEN NoMsg
    ELSE [kind |-> "insert", table |-> "patients", single |-> TRUE,
          payload |-> [name |-> data.name,
                       age |-> ParseInt10(data.age),
                       diagnosis |-> OrElse(data.diagnosis, ""),
                       comorbidities |-> OrElse(data.comorbidities, ""),
                       professional_id |-> user.id]]

\* Fault variant: the early return toasts like every other failure path
PatientsCreateNoUserToast ==
    Outcome(<<>>, <<Toast("Error al crear paciente.", Undefined)>>, JsNull)

\* create: `if (!user) return null;`
PatientsCreateNoUser == Outcome(<<>>, <<>>, JsNull)

\* create, after the await
PatientsCreateAfterAwait(resp) ==
    IF resp.error # NoError
    THEN Outcome(<<"[patients] create error:">>,
                 <<Toast("Error al crear paciente.", Undefined)>>, JsNull)
    ELSE Outcome(<<>>, <<Toast("Paciente creado exitosamente.", "success")>>, resp.data)

PatientsListQuery ==
    [kind |-> "select", table |-> "patients", filters |-> <<>>,
     order |-> <<[column |-> "created_at", ascending |-> FALSE]>>, single |-> FALSE]

PatientsListAfterAwait(resp) ==
    IF resp.error # NoError
    THEN Outcome(<<"[patients] list error:">>,
                 <<Toast("Error al cargar pacientes.", Undefined)>>, JsArray(<<>>))
    ELSE Outcome(<<>>, <<>>, IF resp.data.t = "null" THEN JsArray(<<>>) ELSE resp.data)

\* Fault variant: the row is looked up by the wrong column
PatientsGetByIdQueryWrongColumn(id) ==
    [kind |-> "select", table |-> "patients",
     filters |-> <<[column |-> "age", value |-> id]>>, order |-> <<>>, single |-> TRUE]

PatientsGetByIdQuery(id) ==
    [kind |-> "select", table |-> "patients",
     filters |-> <<[column |-> "id", value |-> id]>>, order |-> <<>>, single |-> TRUE]

PatientsGetByIdAfterAwait(resp) ==
    IF resp.error # NoError
    THEN Outcome(<<"[patients] getById error:">>, <<>>, JsNull)
    ELSE Outcome(<<>>, <<>>, resp.data)

\* -------------------------------------------------------------- wounds.js
WoundsCreateRequest(patientId, data) ==
    [kind |-> "insert", table |-> "wounds", single |-> TRUE,
     payload |-> [patient_id |-> patientId,
                  type |-> OrElse(data.type, ""),
                  location |-> OrElse(data.location, ""),
                  dimensions |-> OrElse(data.dimensions, ""),
                  status |-> OrElse(data.status, "active")]]

\* Fault variant: the backend's error is thrown to the caller
WoundsCreateAfterAwaitThrow(resp) ==
    IF resp.error # NoError
    THEN [log |-> <<"[wounds] create error:">>, toasts |-> <<>>, value |-> JsNull,
          threw |-> TRUE]
    ELSE Outcome(<<>>, <<Toast("Herida registrada exitosamente.", "success")>>, resp.data)

WoundsCreateAfterAwait(resp) ==
    IF resp.error # NoError
    THEN Outcome(<<"[wounds] create error:">>,
                 <<Toast("Error al registrar herida.", Undefined)>>, JsNull)
    ELSE Outcome(<<>>, <<Toast("Herida registrada exitosamente.", "success")>>, resp.data)

\* Fault variant: the .eq('patient_id', patientId) filter is missing
WoundsListByPatientQueryNoFilter(patientId) ==
    [kind |-> "select", table |-> "wounds", filters |-> <<>>,
     order |-> <<[column |-> "created_at", ascending |-> FALSE]>>, single |-> FALSE]

WoundsListByPatientQuery(patientId) ==
    [kind |-> "select", table |-> "wounds",
     filters |-> <<[column |-> "patient_id", value |-> patientId]>>,
     order |-> <<[column |-> "created_at", ascending |-> FALSE]>>, single |-> FALSE]

WoundsListByPatientAfterAwait(resp) ==
    IF resp.error # NoError
    THEN Outcome(<<"[wounds] listByPatient error:">>, <<>>, JsArray(<<>>))
    ELSE Outcome(<<>>, <<>>, IF resp.data.t = "null" THEN JsArray(<<>>) ELSE resp.data)

WoundsGetByIdQuery(woundId) ==
    [kind |-> "select", table |-> "wounds",
     filters |-> <<[column |-> "id", value |-> woundId]>>, order |-> <<>>, single |-> TRUE]

WoundsGetByIdAfterAwait(resp) ==
    IF resp.error # NoError
    THEN Outcome(<<"[wounds] getById error:">>, <<>>, JsNull)
    ELSE Outcome(<<>>, <<>>, resp.data)

\* ---------------------------------------------------------- treatments.js
\* Fault variant: created_at left to the server, as in the other two stores
TreatmentsCreateRequestServerTime(woundId, data, now) ==
    [kind |-> "insert", table |-> "treatments", single |-> TRUE,
     payload |-> [wound_id |-> woundId,
                  technique |-> OrElse(data.technique, ""),
                  supplies |-> OrElse(data.supplies, ""),
                  notes |-> OrElse(data.notes, "")]]

\* now: the reading `new Date()` takes when create is called
TreatmentsCreateRequest(woundId, data, now) ==
    [kind |-> "insert", table |-> "treatments", single |-> TRUE,
     payload |-> [wound_id |-> woundId,
                  technique |-> OrElse(data.technique, ""),
                  supplies |-> OrElse(data.supplies, ""),
                  notes |-> OrElse(data.notes, ""),
                  created_at |-> ToISOString(now)]]

TreatmentsCreateAfterAwait(resp) ==
    IF resp.error # NoError
    THEN Outcome(<<"[treatments] create error:">>,
                 <<Toast("Error al registrar curación.", Undefined)>>, JsNull)
    ELSE Outcome(<<>>, <<Toast("Curación registrada exitosamente.", "success")>>, resp.data)

TreatmentsListByWoundQuery(woundId) ==
    [kind |-> "select", table |-> "treatments",
     filters |-> <<[column |-> "wound_id", value |-> woundId]>>,
     order |-> <<[column |-> "created_at", ascending |-> FALSE]>>, single |-> FALSE]

TreatmentsListByWoundAfterAwait(resp) ==
    IF resp.error # NoError
    THEN Outcome(<<"[treatments] listByWound error:">>, <<>>, JsArray(<<>>))
    ELSE Outcome(<<>>, <<>>, IF resp.data.t = "null" THEN JsArray(<<>>) ELSE resp.data)

\* ---------------------------------------------------------------- backend
\* The remote data-access client's contract: insert-one returning the inserted
\* row, filtered and sorted read-many, filtered read-one, each yielding
\* {data, error}; wounds.patient_id and treatments.wound_id are required
\* foreign keys.
RowIds(t) == {db[t][i].id : i \in 1..Len(db[t])}

ForeignKey ==
    [wounds |-> [column |-> "patient_id", references |-> "patients"],
     treatments |-> [column |-> "wound_id", references |-> "wounds"]]

\* Fault variant: a backend without the foreign-key constraints
FkUnchecked(t, payload) == TRUE

FkHolds(t, payload) ==
    t \in DOMAIN ForeignKey =>
        payload[ForeignKey[t].column] \in RowIds(ForeignKey[t].references)

\* the server's now(): it advances with every row stored
ServerNow == Len(db.patients) + Len(db.wounds) + Len(db.treatments)

\* the row as stored: the payload's columns, a fresh id, and created_at from
\* the payload when it carries one, from the server otherwise
StoredRow(t, payload) ==
    [c \in DOMAIN payload \cup {"id", "created_at"} |->
        IF c = "id" THEN Len(db[t]) + 1
        ELSE IF c = "created_at"
             THEN IF "created_at" \in DOMAIN payload
                  THEN ParseTimestamp(payload.created_at)
                  ELSE ServerNow
             ELSE payload[c]]

Matches(row, filters) ==
    \A i \in 1..Len(filters) : row[filters[i].column] = filters[i].value

Matching(t, filters) == SelectSeq(db[t], LAMBDA r : Matches(r, filters))

InOrder(rows, order) ==
    \A k \in 1..Len(order) : \A i, j \in 1..Len(rows) :
        i < j => IF order[k].ascending
                 THEN rows[i][order[k].column] <= rows[j][order[k].column]
                 ELSE rows[i][order[k].column] >= rows[j][order[k].column]

\* every arrangement of rows the ORDER BY admits (rows that tie come in any order)
Orderings(rows, order) ==
    IF order = <<>> THEN {rows}
    ELSE LET n == Len(rows)
             perms == {f \in [1..n -> 1..n] : \A i, j \in 1..n : f[i] = f[j] => i = j}
         IN  {s \in {[i \in 1..n |-> rows[f[i]]] : f \in perms} : InOrder(s, order)}

SelectAnswer(q, rows) ==
    IF q.single
    THEN IF Len(rows) = 1 THEN Response(JsObject(rows[1]), NoError)
         ELSE Response(JsNull, "PGRST116")
    ELSE Response(JsArray(rows), NoError)

\* an insert is stored and echoed
BackendInsert(s) ==
    /\ net[s].kind = "insert"
    /\ LET t == net[s].table
           row == StoredRow(t, net[s].payload)
       IN  /\ FkHolds(t, net[s].payload)
           /\ db' = [db EXCEPT ![t] = Append(@, row)]
           /\ net' = [net EXCEPT ![s] = Response(JsObject(row), NoError)]
           /\ before' = IF t = "treatments"
                        THEN before \cup {<<a, row.id>> : a \in calls[s].acc}
                        ELSE before
    /\ ret' = NoRet
    /\ UNCHANGED <<session, clock, calls, ncalls, created>>

\* an insert whose foreign key references no row is refused
BackendRefuse(s) ==
    /\ net[s].kind = "insert"
    /\ ~FkHolds(net[s].table, net[s].payload)
    /\ net' = [net EXCEPT ![s] = Response(JsNull, "23503")]
    /\ ret' = NoRet
    /\ UNCHANGED <<db, session, clock, calls, ncalls, created, before>>

BackendSelect(s) ==
    /\ net[s].kind = "select"
    /\ \E rows \in Orderings(Matching(net[s].table, net[s].filters), net[s].order) :
           net' = [net EXCEPT ![s] = SelectAnswer(net[s], rows)]
    /\ ret' = NoRet
    /\ UNCHANGED <<db, session, clock, calls, ncalls, created, before>>

\* any request can fail in transport: nothing is stored, an error is answered
BackendFail(s) ==
    /\ net[s].kind \in {"insert", "select"}
    /\ net' = [net EXCEPT ![s] = Response(JsNull, "fetch")]
    /\ ret' = NoRet
    /\ UNCHANGED <<db, session, clock, calls, ncalls, created, before>>

\* ---------------------------------------------------------------- session
Login(c) ==
    /\ session[c].t = "null"
    /\ session' = [session EXCEPT ![c] = User(UserOf[c])]
    /\ ret' = NoRet
    /\ UNCHANGED <<db, clock, calls, net, ncalls, created, before>>

Logout(c) ==
    /\ session[c].t # "null"
    /\ session' = [session EXCEPT ![c] = JsNull]
    /\ ret' = NoRet
    /\ UNCHANGED <<db, clock, calls, net, ncalls, created, before>>

\* ------------------------------------------------------------ invocations
FreeSlots == {s \in Slots : calls[s].op = "idle"}
NextSlot == CHOOSE s \in FreeSlots : \A x \in FreeSlots : s <= x

TableOf(op) ==
    IF op \in {"patients.create", "patients.list", "patients.getById"} THEN "patients"
    ELSE IF op \in {"wounds.create", "wounds.listByPatient", "wounds.getById"} THEN "wounds"
    ELSE "treatments"

Invocation(op, c, arg, data, user, now) ==
    [op |-> op, client |-> c, arg |-> arg, data |-> data, user |-> user, now |-> now,
     nreq |-> 0,
     seen |-> {r.id : r \in created[TableOf(op)]},
     acc |-> RowIds("treatments")]

\* the invocation hands its request to the client and suspends at the await
Suspend(inv, req) ==
    /\ FreeSlots # {}
    /\ ncalls < MaxCalls
    /\ ncalls' = ncalls + 1
    /\ calls' = [calls EXCEPT ![NextSlot] = [inv EXCEPT !.nreq = @ + 1]]
    /\ net' = [net EXCEPT ![NextSlot] = req]
    /\ ret' = NoRet

Returned(inv, error, out) ==
    [op |-> inv.op, client |-> inv.client, arg |-> inv.arg, data |-> inv.data,
     user |-> inv.user, now |-> inv.now, nreq |-> inv.nreq, seen |-> inv.seen,
     error |-> error, log |-> out.log, toasts |-> out.toasts, value |-> out.value,
     threw |-> out.threw]

\* the answer arrives and the invocation runs to its end
Resume(s, op, out) ==
    /\ calls[s].op = op
    /\ net[s].kind = "response"
    /\ ret' = Returned(calls[s], net[s].error, out)
    /\ calls' = [calls EXCEPT ![s] = Idle]
    /\ net' = [net EXCEPT ![s] = NoMsg]
    /\ created' = IF op \in {"patients.create", "wounds.create", "treatments.create"}
                     /\ ~out.threw /\ out.value.t = "object"
                  THEN [created EXCEPT ![TableOf(op)] = @ \cup {out.value.v}]
                  ELSE created
    /\ UNCHANGED <<db, session, clock, ncalls, before>>

PatientsCreate(c, data) ==
    LET user == session[c]
        req == PatientsCreateRequest(user, data)
        inv == Invocation("patients.create", c, 0, data, user, 0)
    IN  IF req.kind = "none"
        THEN /\ ncalls < MaxCalls
             /\ ncalls' = ncalls + 1
             /\ ret' = Returned(inv, NoError, PatientsCreateNoUser)
             /\ UNCHANGED <<db, session, clock, calls, net, created, before>>
        ELSE /\ Suspend(inv, req)
             /\ UNCHANGED <<db, session, clock, created, before>>

PatientsCreateResume(s) ==
    Resume(s, "patients.create", PatientsCreateAfterAwait(net[s]))

PatientsList ==
    /\ Suspend(Invocation("patients.list", Undefined, 0, Undefined, JsNull, 0), PatientsListQuery)
    /\ UNCHANGED <<db, session, clock, created, before>>

PatientsListResume(s) ==
    Resume(s, "patients.list", PatientsListAfterAwait(net[s]))

PatientsGetById(id) ==
    /\ Suspend(Invocation("patients.getById", Undefined, id, Undefined, JsNull, 0),
               PatientsGetByIdQuery(id))
    /\ UNCHANGED <<db, session, clock, created, before>>

PatientsGetByIdResume(s) ==
    Resume(s, "patients.getById", PatientsGetByIdAfterAwait(net[s]))

WoundsCreate(patientId, data) ==
    /\ Suspend(Invocation("wounds.create", Undefined, patientId, data, JsNull, 0),
               WoundsCreateRequest(patientId, data))
    /\ UNCHANGED <<db, session, clock, created, before>>

WoundsCreateResume(s) ==
    Resume(s, "wounds.create", WoundsCreateAfterAwait(net[s]))

WoundsListByPatient(patientId) ==
    /\ Suspend(Invocation("wounds.listByPatient", Undefined, patientId, Undefined, JsNull, 0),
               WoundsListByPatientQuery(patientId))
    /\ UNCHANGED <<db, session, clock, created, before>>

WoundsListByPatientResume(s) ==
    Resume(s, "wounds.listByPatient", WoundsListByPatientAfterAwait(net[s]))

WoundsGetById(woundId) ==
    /\ Suspend(Invocation("wounds.getById", Undefined, woundId, Undefined, JsNull, 0),
               WoundsGetByIdQuery(woundId))
    /\ UNCHANGED <<db, session, clock, created, before>>

WoundsGetByIdResume(s) ==
    Resume(s, "wounds.getById", WoundsGetByIdAfterAwait(net[s]))

\* new Date() reads the browser's clock, which does not run backwards
TreatmentsCreate(c, woundId, data) ==
    \E now \in clock[c]..MaxClock :
        /\ Suspend(Invocation("treatments.create", c, woundId, data, JsNull, now),
                   TreatmentsCreateRequest(woundId, data, now))
        /\ clock' = [clock EXCEPT ![c] = now]
        /\ UNCHANGED <<db, session, created, before>>

TreatmentsCreateResume(s) ==
    Resume(s, "treatments.create", TreatmentsCreateAfterAwait(net[s]))

TreatmentsListByWound(woundId) ==
    /\ Suspend(Invocation("treatments.listByWound", Undefined, woundId, Undefined, JsNull, 0),
               TreatmentsListByWoundQuery(woundId))
    /\ UNCHANGED <<db, session, clock, created, before>>

TreatmentsListByWoundResume(s) ==
    Resume(s, "treatments.listByWound", TreatmentsListByWoundAfterAwait(net[s]))

\* ---------------------------------------------------------- specification
\* The tables outlive the page: a run starts on an empty backend or on one that
\* earlier runs of these same functions filled.
RowOf(payload, id, at) ==
    [c \in DOMAIN payload \cup {"id", "created_at"} |->
        IF c = "id" THEN id ELSE IF c = "created_at" THEN at ELSE payload[c]]

Ana == CHOOSE d \in PatientInputs : d.name = "Ana"
Luis == CHOOSE d \in PatientInputs : d.name = "Luis"
Heel == CHOOSE d \in WoundInputs : d.location = "heel"
Healed == CHOOSE d \in WoundInputs : d.status = "healed"
Debridement == CHOOSE d \in TreatmentInputs : d.technique = "debridement"
Gauze == CHOOSE d \in TreatmentInputs : d.supplies = "gauze"

FilledBackend ==
    [patients |-> <<RowOf(PatientsCreateRequest(User("u1"), Ana).payload, 1, 0),
                    RowOf(PatientsCreateRequest(User("u2"), Luis).payload, 2, 1)>>,
     wounds |-> <<RowOf(WoundsCreateRequest(1, Heel).payload, 1, 2),
                  RowOf(WoundsCreateRequest(2, Healed).payload, 2, 3)>>,
     treatments |-> <<RowOf(TreatmentsCreateRequest(1, Gauze, 0).payload, 1, 0),
                      RowOf(TreatmentsCreateRequest(1, Debridement, 1).payload, 2, 1)>>]

Init ==
    /\ db \in {[t \in Tables |-> <<>>], FilledBackend}
    /\ ncalls = 0
    /\ session = [c \in Clients |-> JsNull]
    /\ clock = [c \in Clients |-> 0]
    /\ calls = [s \in Slots |-> Idle]
    /\ net = [s \in Slots |-> NoMsg]
    /\ ret = NoRet
    /\ created = [t \in Tables |-> {}]
    /\ before = {p \in RowIds("treatments") \X RowIds("treatments") : p[1] < p[2]}

Next ==
    \/ \E c \in Clients : Login(c)
    \/ \E c \in Clients : Logout(c)
    \/ \E c \in Clients, data \in PatientInputs : PatientsCreate(c, data)
    \/ PatientsList
    \/ \E id \in Ids : PatientsGetById(id)
    \/ \E id \in Ids, data \in WoundInputs : WoundsCreate(id, data)
    \/ \E id \in Ids : WoundsListByPatient(id)
    \/ \E id \in Ids : WoundsGetById(id)
    \/ \E c \in Clients, id \in Ids, data \in TreatmentInputs : TreatmentsCreate(c, id, data)
    \/ \E id \in Ids : TreatmentsListByWound(id)
    \/ \E s \in Slots : PatientsCreateResume(s)
    \/ \E s \in Slots : PatientsListResume(s)
    \/ \E s \in Slots : PatientsGetByIdResume(s)
    \/ \E s \in Slots : WoundsCreateResume(s)
    \/ \E s \in Slots : WoundsListByPatientResume(s)
    \/ \E s \in Slots : WoundsGetByIdResume(s)
    \/ \E s \in Slots : TreatmentsCreateResume(s)
    \/ \E s \in Slots : TreatmentsListByWoundResume(s)
    \/ \E s \in Slots : BackendInsert(s)
    \/ \E s \in Slots : BackendRefuse(s)
    \/ \E s \in Slots : BackendSelect(s)
    \/ \E s \in Slots : BackendFail(s)

Spec == Init /\ [][Next]_vars

\* ------------------------------------------------------------ properties
Elems(seq) == {seq[i] : i \in 1..Len(seq)}
CreateOps == {"patients.create", "wounds.create", "treatments.create"}
IsErrorToast(toast) == toast.type # "success"

\* C1: PatientStore.create with no current user returns null, sends nothing to
\* the backend, shows no toast, and leaves the tables as they were.
C1_NoUserNoRequest ==
    [][(ret'.op = "patients.create" /\ ret'.user.t = "null") =>
          /\ ret'.value = JsNull
          /\ ~ret'.threw
          /\ ret'.nreq = 0
          /\ ret'.toasts = <<>>
          /\ net' = net
          /\ calls' = calls
          /\ db' = db]_vars

C1_Witness ==
    /\ ret.op = "patients.create"
    /\ ret.user.t = "null"
    /\ ret.value = JsNull

\* C2: whichever of the eight operations the backend answers with an error, an
\* error toast is shown before the operation returns.
C2_EveryErrorIsToasted ==
    (ret.op # "none" /\ ret.error # NoError) =>
        \E i \in 1..Len(ret.toasts) : IsErrorToast(ret.toasts[i])

\* C3: a create whose insert is answered with an error returns null, does not
\* throw, and shows no success toast.
C3_CreateErrorReturnsNull ==
    (ret.op \in CreateOps /\ ret.error # NoError) =>
        /\ ~ret.threw
        /\ ret.value = JsNull
        /\ \A i \in 1..Len(ret.toasts) : ret.toasts[i].type # "success"

C3_Witness ==
    /\ ret.op = "wounds.create"
    /\ ret.error = "23503"
    /\ ret.value = JsNull

\* C4: a successful PatientStore.create returns a row whose age is the base-10
\* integer parse of the input age and whose professional_id is the user the
\* session accessor returned when the call started.
C4_AgeParsedOwnerCaptured ==
    (ret.op = "patients.create" /\ ret.value.t = "object") =>
        /\ ret.value.v.age = ParseInt10(ret.data.age)
        /\ ret.value.v.professional_id = ret.user.id

\* the row came back after the browser's session had changed
C4_Witness ==
    /\ ret.op = "patients.create"
    /\ ret.value.t = "object"
    /\ ret.data.age.t = "string"
    /\ ret.value.v.age = 7
    /\ session[ret.client].t = "null"

Supplied(x) == IF x \in {Undefined, Null} THEN "" ELSE x

C7_TreatmentPayload ==
    \A s \in Slots :
        (calls[s].op = "treatments.create" /\ net[s].kind = "insert") =>
            LET sent == net[s].payload
                inv == calls[s]
            IN  /\ net[s].table = "treatments"
                /\ sent.wound_id = inv.arg
                /\ sent.technique = Supplied(inv.data.technique)
                /\ sent.supplies = Supplied(inv.data.supplies)
                /\ sent.notes = Supplied(inv.data.notes)
                /\ "created_at" \in DOMAIN sent
                /\ sent.created_at = ToISOString(inv.now)
                /\ ParseTimestamp(sent.created_at) = inv.now

\* the scenario of the spec, sent from a browser whose clock is ahead of the other's
C7_Witness ==
    \E s \in Slots :
        /\ calls[s].op = "treatments.create"
        /\ net[s].kind = "insert"
        /\ calls[s].data.technique = "debridement"
        /\ net[s].payload.supplies = ""
        /\ calls[s].now > 0
        /\ \E c \in Clients : clock[c] < calls[s].now

\* C8: every stored wound references a stored patient and every stored treatment
\* a stored wound.
C8_ReferencesExist ==
    /\ \A i \in 1..Len(db.wounds) : db.wounds[i].patient_id \in RowIds("patients")
    /\ \A i \in 1..Len(db.treatments) : db.treatments[i].wound_id \in RowIds("wounds")

\* a create for a missing parent was refused and surfaced as the generic failure
C8_Witness ==
    /\ ret.op \in {"wounds.create", "treatments.create"}
    /\ ret.error = "23503"
    /\ ret.toasts # <<>>
    /\ ret.arg \notin RowIds(IF ret.op = "wounds.create" THEN "patients" ELSE "wounds")

\* C9: if treatment A was stored before the create call for B was made, every
\* later successful listByWound of their wound shows B before A, whatever the two
\* callers' clocks read.
C9_NewestFirstInRealTime ==
    (ret.op = "treatments.listByWound" /\ ret.error = NoError) =>
        LET rows == ret.value.v
        IN  \A i, j \in 1..Len(rows) :
                <<rows[i].id, rows[j].id>> \in before => j < i

ResumeOf(s) ==
    \/ PatientsCreateResume(s) \/ PatientsListResume(s) \/ PatientsGetByIdResume(s)
    \/ WoundsCreateResume(s) \/ WoundsListByPatientResume(s) \/ WoundsGetByIdResume(s)
    \/ TreatmentsCreateResume(s) \/ TreatmentsListByWoundResume(s)

\* C10: an invocation sends exactly one request (none for a create with no user);
\* each suspended invocation has its own request or answer; once answered it can
\* only return, with a value, and an answer, error or not, is never followed by
\* another request of that invocation.
C10_OneRequestPerInvocation ==
    /\ [](/\ \A s \in Slots :
               IF calls[s].op = "idle" THEN net[s].kind = "none"
               ELSE /\ calls[s].nreq = 1
                    /\ net[s].kind \in {"insert", "select", "response"}
                    /\ net[s].kind = "response" => ENABLED ResumeOf(s)
          /\ ret.op # "none" =>
               /\ ~ret.threw
               /\ ret.nreq = IF ret.op = "patients.create" /\ ret.user.t = "null"
                             THEN 0 ELSE 1)
    /\ [][\A s \in Slots :
              net[s].kind = "response" =>
                  \/ net'[s] = net[s] /\ calls'[s] = calls[s]
                  \/ /\ net'[s].kind = "none"
                     /\ calls'[s].op = "idle"
                     /\ ret'.op = calls[s].op
                     /\ ret'.error = net[s].error]_vars

\* two identical creates in flight: two insert requests
C10_Witness ==
    \E s, t \in Slots :
        /\ s # t
        /\ calls[s].op = "patients.create"
        /\ calls[t].op = "patients.create"
        /\ net[s].kind = "insert"
        /\ net[s] = net[t]

====
